---------------------------- MODULE Spec2Model ----------------------------
(***************************************************************************)
(* A model of the scene composer (SceneManager.cpp) and of the view        *)
(* controller (ViewManager.cpp).                                           *)
(*                                                                         *)
(* Units.  The C++ code computes in float; the model computes in integers: *)
(*   - angles (yaw, pitch) in tenths of a degree: the cursor sensitivity   *)
(*     0.1 turns one pixel of cursor travel into one tenth of a degree;    *)
(*   - the movement speed in tenths: one scroll notch adds 0.1;            *)
(*   - vector components and sines in units of 1/VecScale.                 *)
(*   - scales and positions of SetTransformations in units of 1/1000, its  *)
(*     rotations in whole degrees, matrix entries in units of 1/VecScale.  *)
(* Cursor positions and scroll offsets are whole pixels / whole notches.   *)
(***************************************************************************)
EXTENDS Integers, Sequences, FiniteSets, TLC

VARIABLES
    \* ---- ViewManager.cpp: the globals of the anonymous namespace
    gLastX, gLastY,            \* last cursor position (pixels)
    gFirstMouse,               \* no cursor sample seen yet
    yaw, pitch,                \* tenths of a degree
    bOrthographicProjection,   \* projection mode flag
    camera,                    \* *g_pCamera: Position, Front, Up, Zoom, MovementSpeed
    shouldClose,               \* glfwSetWindowShouldClose was asked
    viewUniforms,              \* view / projection / viewPosition as last published
    \* ---- history of the view controller (not program state)
    mouseCalls, scrollCalls, frames,
    lastKeys,                  \* the keys the last frame found pressed
    firstCursor,               \* the first cursor sample delivered, if any
    pitchClamped,              \* some cursor callback cut the pitch down to a limit
    \* ---- SceneManager.cpp: the members of SceneManager
    m_textureIDs,              \* the 16-entry slot table
    m_beyond,                  \* what lies in memory past the end of the slot table
    m_loadedTextures,
    m_objectMaterials,
    \* ---- the GPU / shader state the scene composer drives
    gl,                        \* GPU texture names alive, next name, texture units
    uniforms,                  \* uniform values as last published by the scene composer
    log,                       \* the shader-sink and mesh-provider calls of the last operation
    crashed,                   \* the process was killed by an out-of-bounds access
    lastCall,                  \* the last SceneManager operation, its arguments and result
    \* ---- history of the scene composer (not program state)
    createCalls, prepareCalls,
    registered,                \* the tags CreateGLTexture registered, in order
    failedTags,                \* the tags CreateGLTexture returned false for
    \* ---- the caller of the scene composer
    transformArgs              \* the arguments of its SetTransformations calls

viewVars  == <<gLastX, gLastY, gFirstMouse, yaw, pitch, bOrthographicProjection,
               camera, shouldClose, viewUniforms, mouseCalls, scrollCalls, frames,
               lastKeys, firstCursor, pitchClamped>>
sceneVars == <<m_textureIDs, m_beyond, m_loadedTextures, m_objectMaterials,
               gl, uniforms, log, crashed, lastCall, createCalls, prepareCalls,
               registered, failedTags, transformArgs>>
vars      == <<viewVars, sceneVars>>

---------------------------------------------------------------------------
(* Bounds of the model.                                                    *)

MaxEvents       == 4    \* cursor callbacks, scroll callbacks and frames in a run of ViewSpec
MaxCreateCalls  == 2    \* direct CreateGLTexture calls in a run of TextureSpec
MaxPrepareCalls == 2    \* PrepareScene calls in a run of TextureSpec
MaxSetupCalls   == 2    \* CreateGLTexture and PrepareScene calls in a run of ShaderSpec
MaxColorSetups  == 2    \* PrepareScene calls in a run of ColorSpec

---------------------------------------------------------------------------
(* Fixed-point arithmetic.                                                 *)

VecScale == 10000

\* a / b rounded to the nearest integer, halves away from zero (b > 0)
RoundDiv(a, b) ==
    IF a >= 0 THEN (a + b \div 2) \div b ELSE -(((-a) + b \div 2) \div b)

RECURSIVE SqrtSearch(_, _, _)
SqrtSearch(n, lo, hi) ==
    IF lo >= hi THEN lo
    ELSE LET mid == (lo + hi + 1) \div 2
         IN  IF mid * mid <= n THEN SqrtSearch(n, mid, hi)
                               ELSE SqrtSearch(n, lo, mid - 1)

\* floor of the square root of n, 0 <= n < 2^31
ISqrt(n) == SqrtSearch(n, 0, 46340)

\* 10000 * sin(d degrees), d = 0..90
SinTable ==
    << 0, 175, 349, 523, 698, 872, 1045, 1219, 1392, 1564, 1736, 1908, 2079,
       2250, 2419, 2588, 2756, 2924, 3090, 3256, 3420, 3584, 3746, 3907, 4067, 4226,
       4384, 4540, 4695, 4848, 5000, 5150, 5299, 5446, 5592, 5736, 5878, 6018, 6157,
       6293, 6428, 6561, 6691, 6820, 6947, 7071, 7193, 7314, 7431, 7547, 7660, 7771,
       7880, 7986, 8090, 8192, 8290, 8387, 8480, 8572, 8660, 8746, 8829, 8910, 8988,
       9063, 9135, 9205, 9272, 9336, 9397, 9455, 9511, 9563, 9613, 9659, 9703, 9744,
       9781, 9816, 9848, 9877, 9903, 9925, 9945, 9962, 9976, 9986, 9994, 9998, 10000 >>

\* sin of t tenths of a degree, 0 <= t <= 900, linear between whole degrees
SinQuadrant(t) ==
    LET d == t \div 10
        r == t % 10
    IN  IF r = 0 THEN SinTable[d + 1]
        ELSE SinTable[d + 1] + RoundDiv((SinTable[d + 2] - SinTable[d + 1]) * r, 10)

\* sin(glm::radians(t / 10)), any integer t
Sin(t) ==
    LET m == t % 3600
    IN  IF m <= 900 THEN SinQuadrant(m)
        ELSE IF m <= 1800 THEN SinQuadrant(1800 - m)
        ELSE IF m <= 2700 THEN -SinQuadrant(m - 1800)
        ELSE -SinQuadrant(3600 - m)

Cos(t) == Sin(t + 900)

\* glm::vec3 operations
Vec(x, y, z)   == <<x, y, z>>
VAdd(a, b)     == <<a[1] + b[1], a[2] + b[2], a[3] + b[3]>>
VSub(a, b)     == <<a[1] - b[1], a[2] - b[2], a[3] - b[3]>>
\* s tenths times a vector
VTenths(s, a)  == <<RoundDiv(s * a[1], 10), RoundDiv(s * a[2], 10), RoundDiv(s * a[3], 10)>>
SqLen(a)       == a[1] * a[1] + a[2] * a[2] + a[3] * a[3]
Cross(a, b)    == <<RoundDiv(a[2] * b[3] - a[3] * b[2], VecScale),
                    RoundDiv(a[3] * b[1] - a[1] * b[3], VecScale),
                    RoundDiv(a[1] * b[2] - a[2] * b[1], VecScale)>>
\* glm::normalize: a / |a| (the zero vector has no direction: left as it is)
Normalize(a)   ==
    LET len == ISqrt(SqLen(a))
    IN  IF len = 0 THEN a
        ELSE <<RoundDiv(a[1] * VecScale, len), RoundDiv(a[2] * VecScale, len),
               RoundDiv(a[3] * VecScale, len)>>

---------------------------------------------------------------------------
(* ViewManager.cpp                                                         *)

WINDOW_WIDTH  == 1000
WINDOW_HEIGHT == 800

\* the pitch limit 89.0 degrees and the speed limits 0.1 and 1.0, in tenths
PitchLimit == 890
SpeedMin   == 1
SpeedMax   == 10

\* cursor positions and scroll offsets the window system may deliver
CursorXs      == {500, 520}
CursorYs      == {400, 430, 1400}
ScrollOffsets == {-1, 1, 12}
Keys          == {"ESC", "W", "S", "A", "D", "Q", "E", "P", "O"}

\* ViewManager::ViewManager
CtorCamera ==
    [Position      |-> Vec(0, 5 * VecScale, 12 * VecScale),
     Front         |-> Vec(0, -(VecScale \div 2), -2 * VecScale),
     Up            |-> Vec(0, VecScale, 0),
     Zoom          |-> 80,
     MovementSpeed |-> 1]

ViewInit ==
    /\ gLastX = WINDOW_WIDTH \div 2
    /\ gLastY = WINDOW_HEIGHT \div 2
    /\ gFirstMouse = TRUE
    /\ yaw = -890
    /\ pitch = 0
    /\ bOrthographicProjection = FALSE
    /\ camera = CtorCamera
    /\ shouldClose = FALSE
    /\ viewUniforms = [published |-> FALSE]
    /\ mouseCalls = 0
    /\ scrollCalls = 0
    /\ frames = 0
    /\ lastKeys = {}
    /\ firstCursor = << >>
    /\ pitchClamped = FALSE

\* scrollCallback without its upper clamp
ClampSpeedNoUpper(s) == IF s < SpeedMin THEN SpeedMin ELSE s

\* the two clamps of scrollCallback
ClampSpeed(s) ==
    LET lo == IF s < SpeedMin THEN SpeedMin ELSE s
    IN  IF lo > SpeedMax THEN SpeedMax ELSE lo

scrollCallback(yOffset) ==
    /\ camera' = [camera EXCEPT !.MovementSpeed = ClampSpeed(@ + yOffset)]
    /\ scrollCalls' = scrollCalls + 1
    /\ UNCHANGED <<gLastX, gLastY, gFirstMouse, yaw, pitch, bOrthographicProjection,
                   shouldClose, viewUniforms, mouseCalls, frames,
                   lastKeys, firstCursor, pitchClamped>>
    /\ UNCHANGED sceneVars

\* Mouse_Position_Callback without its lower clamp
ClampPitchNoLower(p) == IF p > PitchLimit THEN PitchLimit ELSE p

\* the two clamps of Mouse_Position_Callback
ClampPitch(p) ==
    LET hi == IF p > PitchLimit THEN PitchLimit ELSE p
    IN  IF hi < -PitchLimit THEN -PitchLimit ELSE hi

\* the direction vector of Mouse_Position_Callback, normalized
Direction(y, p) ==
    Normalize(Vec(RoundDiv(Cos(y) * Cos(p), VecScale),
                  Sin(p),
                  RoundDiv(Sin(y) * Cos(p), VecScale)))

\* Mouse_Position_Callback taking the first offsets from the window centre
Mouse_Position_CallbackFromCentre(xMousePos, yMousePos) ==
    LET xOffset == xMousePos - gLastX
        yOffset == gLastY - yMousePos
        newYaw  == yaw + xOffset
        newPitch == ClampPitch(pitch + yOffset)
    IN  /\ gFirstMouse' = FALSE
        /\ gLastX' = xMousePos
        /\ gLastY' = yMousePos
        /\ yaw' = newYaw
        /\ pitch' = newPitch
        /\ camera' = [camera EXCEPT !.Front = Direction(newYaw, newPitch)]
        /\ mouseCalls' = mouseCalls + 1
        /\ firstCursor' = IF gFirstMouse THEN <<xMousePos, yMousePos>> ELSE firstCursor
        /\ pitchClamped' = (pitchClamped \/ newPitch # pitch + yOffset)
        /\ UNCHANGED <<bOrthographicProjection, shouldClose, viewUniforms,
                       scrollCalls, frames, lastKeys>>
        /\ UNCHANGED sceneVars

Mouse_Position_Callback(xMousePos, yMousePos) ==
    LET lastX   == IF gFirstMouse THEN xMousePos ELSE gLastX
        lastY   == IF gFirstMouse THEN yMousePos ELSE gLastY
        xOffset == xMousePos - lastX
        yOffset == lastY - yMousePos
        newYaw  == yaw + xOffset
        newPitch == ClampPitch(pitch + yOffset)
    IN  /\ gFirstMouse' = FALSE
        /\ gLastX' = xMousePos
        /\ gLastY' = yMousePos
        /\ yaw' = newYaw
        /\ pitch' = newPitch
        /\ camera' = [camera EXCEPT !.Front = Direction(newYaw, newPitch)]
        /\ mouseCalls' = mouseCalls + 1
        /\ firstCursor' = IF gFirstMouse THEN <<xMousePos, yMousePos>> ELSE firstCursor
        /\ pitchClamped' = (pitchClamped \/ newPitch # pitch + yOffset)
        /\ UNCHANGED <<bOrthographicProjection, shouldClose, viewUniforms,
                       scrollCalls, frames, lastKeys>>
        /\ UNCHANGED sceneVars

\* the camera position after the movement keys of ProcessKeyboardEvents
MovedPosition(cam, keys) ==
    LET right == Normalize(Cross(cam.Front, cam.Up))
        p1 == IF "W" \in keys THEN VAdd(cam.Position, VTenths(cam.MovementSpeed, cam.Front))
                              ELSE cam.Position
        p2 == IF "S" \in keys THEN VSub(p1, VTenths(cam.MovementSpeed, cam.Front)) ELSE p1
        p3 == IF "A" \in keys THEN VSub(p2, VTenths(cam.MovementSpeed, right)) ELSE p2
        p4 == IF "D" \in keys THEN VAdd(p3, VTenths(cam.MovementSpeed, right)) ELSE p3
        p5 == IF "Q" \in keys THEN VAdd(p4, VTenths(cam.MovementSpeed, cam.Up)) ELSE p4
        p6 == IF "E" \in keys THEN VSub(p5, VTenths(cam.MovementSpeed, cam.Up)) ELSE p5
    IN  p6

\* ProcessKeyboardEvents falling back to perspective when no key is held
PolledProjectionResets(ortho, keys) == "O" \in keys

\* ProcessKeyboardEvents polling O before P
PolledProjectionPollsOFirst(ortho, keys) ==
    LET afterO == IF "O" \in keys THEN TRUE ELSE ortho
    IN  IF "P" \in keys THEN FALSE ELSE afterO

\* the projection flag after the P and O polls of ProcessKeyboardEvents
PolledProjection(ortho, keys) ==
    LET afterP == IF "P" \in keys THEN FALSE ELSE ortho
    IN  IF "O" \in keys THEN TRUE ELSE afterP

\* PrepareSceneView computing the view before it polls the keyboard
PrepareSceneViewPublishesFirst(keys) ==
    LET cam   == [camera EXCEPT !.Position = MovedPosition(camera, keys)]
        ortho == PolledProjection(bOrthographicProjection, keys)
    IN  /\ shouldClose' = (shouldClose \/ "ESC" \in keys)
        /\ camera' = cam
        /\ bOrthographicProjection' = ortho
        /\ viewUniforms' =
              [published    |-> TRUE,
               view         |-> [eye |-> camera.Position, front |-> camera.Front,
                                 up |-> camera.Up],
               projection   |-> IF ortho
                                THEN [kind |-> "ortho", size |-> 10]
                                ELSE [kind |-> "perspective", fov |-> cam.Zoom],
               viewPosition |-> camera.Position]
        /\ frames' = frames + 1
        /\ lastKeys' = keys
        /\ UNCHANGED <<gLastX, gLastY, gFirstMouse, yaw, pitch, mouseCalls, scrollCalls,
                       firstCursor, pitchClamped>>
        /\ UNCHANGED sceneVars

\* PrepareSceneView: ProcessKeyboardEvents, then view and projection published
PrepareSceneView(keys) ==
    LET cam   == [camera EXCEPT !.Position = MovedPosition(camera, keys)]
        ortho == PolledProjection(bOrthographicProjection, keys)
    IN  /\ shouldClose' = (shouldClose \/ "ESC" \in keys)
        /\ camera' = cam
        /\ bOrthographicProjection' = ortho
        /\ viewUniforms' =
              [published    |-> TRUE,
               view         |-> [eye |-> cam.Position, front |-> cam.Front, up |-> cam.Up],
               projection   |-> IF ortho
                                THEN [kind |-> "ortho", size |-> 10]
                                ELSE [kind |-> "perspective", fov |-> cam.Zoom],
               viewPosition |-> cam.Position]
        /\ frames' = frames + 1
        /\ lastKeys' = keys
        /\ UNCHANGED <<gLastX, gLastY, gFirstMouse, yaw, pitch, mouseCalls, scrollCalls,
                       firstCursor, pitchClamped>>
        /\ UNCHANGED sceneVars

\* the keys found pressed in one frame: none, any one, or some pairs
KeySets == {{}} \cup {{k} : k \in Keys} \cup {{"P", "O"}, {"W", "D"}}

\* the events of the run so far
ViewEvents == mouseCalls + scrollCalls + frames

\* the window system delivers a cursor or scroll event, or the run loop
\* starts a frame
ViewNext ==
    \/ \E x \in CursorXs, y \in CursorYs :
          ViewEvents < MaxEvents /\ Mouse_Position_Callback(x, y)
    \/ \E o \in ScrollOffsets : ViewEvents < MaxEvents /\ scrollCallback(o)
    \/ \E k \in KeySets : ViewEvents < MaxEvents /\ PrepareSceneView(k)


---------------------------------------------------------------------------
(* SceneManager.cpp: the texture table                                     *)

\* the size of m_textureIDs
TableSize == 16

EmptyEntry == [tag |-> "/0", ID |-> -1]

\* the outcomes of stbi_load: 0 stands for a null image, else the channel count
Channels == {0, 1, 3, 4}

\* The texture state the operations below work on, as one record:
\*   tab, beyond, n : m_textureIDs, the memory behind it, m_loadedTextures
\*   gl             : the GPU state;  crashed : the process is dead
TexState == [tab |-> m_textureIDs, beyond |-> m_beyond, n |-> m_loadedTextures,
             gl |-> gl, crashed |-> crashed]

\* m_textureIDs[index], index counted from 0; behind the table: what was put there
EntryAt(T, index) ==
    IF index < TableSize THEN T.tab[index + 1]
    ELSE IF index - TableSize < Len(T.beyond) THEN T.beyond[index - TableSize + 1]
    ELSE EmptyEntry

\* glGenTextures(1, &name)
GenTexture(g) == [g EXCEPT !.textures = @ \cup {g.next}, !.next = @ + 1]

\* a registration that always writes the first slot
RegisterTextureAtFront(T, id, tag, survive) ==
    [T EXCEPT !.tab[1] = [tag |-> tag, ID |-> id], !.n = @ + 1]

\* the registration at the end of CreateGLTexture.  With the table full the
\* write goes past the table's end: undefined behaviour. Either the process
\* dies there (survive = FALSE), or the write lands in the memory behind
\* the table and the run goes on.
RegisterTexture(T, id, tag, survive) ==
    IF T.n < TableSize
    THEN [T EXCEPT !.tab[T.n + 1] = [tag |-> tag, ID |-> id], !.n = @ + 1]
    ELSE IF survive
    THEN [T EXCEPT !.beyond = Append(@, [tag |-> tag, ID |-> id]), !.n = @ + 1]
    ELSE [T EXCEPT !.crashed = TRUE]

\* CreateGLTexture registering the texture before it looks at the channel count
CreateGLTextureRegistersFirst(T, ch, tag, survive) ==
    IF ch = 0
    THEN [st |-> T, ret |-> "false"]
    ELSE LET T1 == [T EXCEPT !.gl = GenTexture(@)]
             T2 == RegisterTexture(T1, T.gl.next, tag, survive)
         IN  [st |-> T2, ret |-> IF T2.crashed THEN "crash"
                                 ELSE IF ch \in {3, 4} THEN "true" ELSE "false"]

\* CreateGLTexture on texture state T, for an image decoding with ch channels:
\* the state after it and what it returns
CreateGLTextureOn(T, ch, tag, survive) ==
    IF ch = 0
    THEN [st |-> T, ret |-> "false"]
    ELSE LET T1 == [T EXCEPT !.gl = GenTexture(@)]
             id == T.gl.next
         IN  IF ch \notin {3, 4}
             THEN [st |-> T1, ret |-> "false"]
             ELSE LET T2 == RegisterTexture(T1, id, tag, survive)
                  IN  [st |-> T2, ret |-> IF T2.crashed THEN "crash" ELSE "true"]

\* BindGLTextures: unit i gets the ID of slot i, for every i < m_loadedTextures
BindGLTexturesOn(T) ==
    [T EXCEPT !.gl.units = [i \in 1..T.n |-> EntryAt(T, i - 1).ID]]

\* DestroyGLTextures: glGenTextures once for every i < m_loadedTextures, each
\* call making a new name and storing it in m_textureIDs[i].ID
DestroyGLTexturesOn(T) ==
    [T EXCEPT
       !.tab    = [i \in 1..TableSize |->
                     IF i <= T.n THEN [T.tab[i] EXCEPT !.ID = T.gl.next + i - 1]
                                 ELSE T.tab[i]],
       !.beyond = [i \in 1..Len(T.beyond) |->
                     IF TableSize + i <= T.n
                     THEN [T.beyond[i] EXCEPT !.ID = T.gl.next + TableSize + i - 1]
                     ELSE T.beyond[i]],
       !.gl     = [T.gl EXCEPT !.textures = @ \cup (T.gl.next .. T.gl.next + T.n - 1),
                               !.next = @ + T.n]]

RECURSIVE FindFrom(_, _, _)
\* the loop of FindTextureID and FindTextureSlot: the first index >= index whose
\* tag is tag, or -1
FindFrom(T, tag, index) ==
    IF index >= T.n THEN -1
    ELSE IF EntryAt(T, index).tag = tag THEN index
    ELSE FindFrom(T, tag, index + 1)

\* FindTextureSlot answering slot 0 for a tag it does not find
FindTextureSlotOnFallsBack(T, tag) ==
    IF FindFrom(T, tag, 0) = -1 THEN 0 ELSE FindFrom(T, tag, 0)

FindTextureSlotOn(T, tag) == FindFrom(T, tag, 0)

\* FindTextureID going on to the last entry with the tag
FindTextureIDOnLastMatch(T, tag) ==
    LET found == {i \in 0..(T.n - 1) : EntryAt(T, i).tag = tag}
    IN  IF found = {} THEN -1
        ELSE EntryAt(T, CHOOSE i \in found : \A j \in found : j <= i).ID

FindTextureIDOn(T, tag) ==
    LET index == FindFrom(T, tag, 0)
    IN  IF index = -1 THEN -1 ELSE EntryAt(T, index).ID

FindTextureSlot(tag) == FindTextureSlotOn(TexState, tag)
FindTextureID(tag)   == FindTextureIDOn(TexState, tag)

\* LoadSceneTextures: the eight images and their tags
SceneTextures ==
    << [file |-> "ceramicTexture.jpg",      tag |-> "mug"],
       [file |-> "stoneTexture.jpg",        tag |-> "table"],
       [file |-> "blackPlasticTexture.jpg", tag |-> "blackPlastic"],
       [file |-> "whitePlasticTexture.jpg", tag |-> "whitePlastic"],
       [file |-> "bluePlasticTexture.jpg",  tag |-> "bluePlastic"],
       [file |-> "redPaperTexture.jpg",     tag |-> "redPaper"],
       [file |-> "blackBookTexture.jpg",    tag |-> "blackBook"],
       [file |-> "brownBookTexture.jpg",    tag |-> "brownBook"] >>

RECURSIVE LoadFrom(_, _, _, _)
LoadFrom(T, i, chs, survive) ==
    IF i > Len(SceneTextures) \/ T.crashed THEN T
    ELSE LoadFrom(CreateGLTextureOn(T, chs[i], SceneTextures[i].tag, survive).st,
                  i + 1, chs, survive)

RECURSIVE LoadReturns(_, _, _, _)
\* the CreateGLTexture calls of LoadSceneTextures from the i-th on: tag and
\* return value of each
LoadReturns(T, i, chs, survive) ==
    IF i > Len(SceneTextures) \/ T.crashed THEN << >>
    ELSE LET r == CreateGLTextureOn(T, chs[i], SceneTextures[i].tag, survive)
         IN  << [tag |-> SceneTextures[i].tag, ret |-> r.ret] >>
             \o LoadReturns(r.st, i + 1, chs, survive)

\* chs[i]: how the i-th image decodes
LoadSceneTexturesOn(T, chs, survive) ==
    LET T1 == LoadFrom(T, 1, chs, survive)
    IN  IF T1.crashed THEN T1 ELSE BindGLTexturesOn(T1)

---------------------------------------------------------------------------
(* SceneManager.cpp: materials, lights and the shader state                *)

\* colours, strengths and shininess in units of 1/1000
Material(tag, ambientColor, ambientStrength, diffuseColor, specularColor, shininess) ==
    [tag |-> tag, ambientColor |-> ambientColor, ambientStrength |-> ambientStrength,
     diffuseColor |-> diffuseColor, specularColor |-> specularColor,
     shininess |-> shininess]

\* the six materials DefineObjectMaterials appends
SceneMaterials ==
    << Material("ceramic",     <<700, 700, 700>>,  50, <<700, 700, 700>>,  <<800, 800, 800>>, 4000),
       Material("marble",      <<50, 50, 50>>,    100, <<100, 100, 100>>,  <<700, 700, 700>>, 20000),
       Material("paper",       <<700, 700, 650>>, 100, <<1000, 1000, 900>>, <<200, 200, 200>>, 2000),
       Material("plastic",     <<50, 50, 50>>,    100, <<400, 400, 400>>,  <<700, 700, 700>>, 60000),
       Material("dullPlastic", <<50, 50, 50>>,    100, <<400, 400, 400>>,  <<700, 700, 700>>, 20000),
       Material("glass",       <<100, 100, 100>>, 100, <<200, 200, 200>>,  <<900, 900, 900>>, 100000) >>

DefineObjectMaterialsOn(materials) == materials \o SceneMaterials

\* A call of the shader manager or of the mesh provider
SetCall(name, val) == [call |-> "set",  name |-> name, val |-> val]
DrawCall(mesh)     == [call |-> "draw", name |-> mesh, val |-> <<>>]
LoadCall(mesh)     == [call |-> "load", name |-> mesh, val |-> <<>>]

\* what an OBJECT_MATERIAL local holds before anything is stored in it: any
\* bytes; the model offers all zeros, some junk, and a scene material (what
\* an earlier call left on the stack)
UninitMaterials ==
    {Material("", <<0, 0, 0>>, 0, <<0, 0, 0>>, <<0, 0, 0>>, 0),
     Material("", <<-7, 13, 999>>, -1, <<42, 0, 5>>, <<1, 2, 3>>, 77),
     SceneMaterials[4]}

RECURSIVE FindMaterialFrom(_, _, _)
\* the loop of FindMaterial: the index of the first material at or after index
\* whose tag is tag, or 0
FindMaterialFrom(materials, tag, index) ==
    IF index > Len(materials) THEN 0
    ELSE IF materials[index].tag = tag THEN index
    ELSE FindMaterialFrom(materials, tag, index + 1)

\* FindMaterial(tag, material): what it returns, and material afterwards, when
\* material held uninit at the call
FindMaterial(materials, tag, uninit) ==
    IF Len(materials) = 0
    THEN [ret |-> FALSE, material |-> uninit]
    ELSE LET index == FindMaterialFrom(materials, tag, 1)
         IN  [ret |-> TRUE,
              material |-> IF index = 0 THEN uninit ELSE materials[index]]

\* SetShaderMaterial: the shader manager calls it makes
SetShaderMaterialCalls(materials, tag, uninit) ==
    IF Len(materials) > 0
    THEN LET found == FindMaterial(materials, tag, uninit)
         IN  IF found.ret
             THEN << SetCall("material.ambientColor",    found.material.ambientColor),
                     SetCall("material.ambientStrength", <<found.material.ambientStrength>>),
                     SetCall("material.diffuseColor",    found.material.diffuseColor),
                     SetCall("material.specularColor",   found.material.specularColor),
                     SetCall("material.shininess",       <<found.material.shininess>>) >>
             ELSE << >>
    ELSE << >>

\* SetShaderTexture: the shader manager calls it makes
SetShaderTextureCalls(T, tag) ==
    << SetCall("bUseTexture", <<1>>),
       SetCall("objectTexture", <<FindTextureSlotOn(T, tag)>>) >>

\* SetShaderColor with the bUseTexture call the source has commented out
SetShaderColorCallsClearsFlag(r, g, b, a) ==
    << SetCall("bUseTexture", <<0>>), SetCall("objectColor", <<r, g, b, a>>) >>

\* SetShaderColor (the bUseTexture call is commented out in the source)
SetShaderColorCalls(r, g, b, a) == << SetCall("objectColor", <<r, g, b, a>>) >>

\* SetTextureUVScale
SetTextureUVScaleCalls(u, v) == << SetCall("UVscale", <<u, v>>) >>

\* glm::mat4 as four rows of four entries, in units of 1/VecScale
MatEntry(A, B, i, j) ==
      RoundDiv(A[i][1] * B[1][j], VecScale) + RoundDiv(A[i][2] * B[2][j], VecScale)
    + RoundDiv(A[i][3] * B[3][j], VecScale) + RoundDiv(A[i][4] * B[4][j], VecScale)
MatRow(A, B, i) ==
    <<MatEntry(A, B, i, 1), MatEntry(A, B, i, 2), MatEntry(A, B, i, 3), MatEntry(A, B, i, 4)>>
\* the product A * B (each factor is evaluated once)
MatMul(A, B) ==
    CHOOSE m \in { <<MatRow(a, b, 1), MatRow(a, b, 2), MatRow(a, b, 3), MatRow(a, b, 4)>> :
                    a \in {A}, b \in {B} } : TRUE

\* a value in units of 1/1000 in units of 1/VecScale
FromMilli(v) == v * (VecScale \div 1000)

\* glm::scale(v) and glm::translate(v), v in units of 1/1000
GlmScale(v) ==
    << <<FromMilli(v[1]), 0, 0, 0>>,
       <<0, FromMilli(v[2]), 0, 0>>,
       <<0, 0, FromMilli(v[3]), 0>>,
       <<0, 0, 0, VecScale>> >>
GlmTranslate(v) ==
    << <<VecScale, 0, 0, FromMilli(v[1])>>,
       <<0, VecScale, 0, FromMilli(v[2])>>,
       <<0, 0, VecScale, FromMilli(v[3])>>,
       <<0, 0, 0, VecScale>> >>

\* glm::rotate(glm::radians(d), axis) for the three coordinate axes, d in degrees
GlmRotateX(d) ==
    LET c == Cos(10 * d)  s == Sin(10 * d)
    IN  << <<VecScale, 0, 0, 0>>, <<0, c, -s, 0>>, <<0, s, c, 0>>, <<0, 0, 0, VecScale>> >>
GlmRotateY(d) ==
    LET c == Cos(10 * d)  s == Sin(10 * d)
    IN  << <<c, 0, s, 0>>, <<0, VecScale, 0, 0>>, <<-s, 0, c, 0>>, <<0, 0, 0, VecScale>> >>
GlmRotateZ(d) ==
    LET c == Cos(10 * d)  s == Sin(10 * d)
    IN  << <<c, -s, 0, 0>>, <<s, c, 0, 0>>, <<0, 0, VecScale, 0>>, <<0, 0, 0, VecScale>> >>

\* SetTransformations composing the matrix in the opposite order
ModelMatrixScalesLast(scaleXYZ, rx, ry, rz, positionXYZ) ==
    MatMul(MatMul(MatMul(MatMul(GlmScale(scaleXYZ), GlmRotateZ(rz)), GlmRotateY(ry)),
                  GlmRotateX(rx)),
           GlmTranslate(positionXYZ))

\* the matrix of SetTransformations:
\* translation * rotationX * rotationY * rotationZ * scale
ModelMatrix(scaleXYZ, rx, ry, rz, positionXYZ) ==
    MatMul(MatMul(MatMul(MatMul(GlmTranslate(positionXYZ), GlmRotateX(rx)), GlmRotateY(ry)),
                  GlmRotateZ(rz)),
           GlmScale(scaleXYZ))

\* SetTransformations: the model uniform (scale and position in units of
\* 1/1000, rotations in degrees)
SetTransformationsCalls(scaleXYZ, rx, ry, rz, positionXYZ) ==
    << SetCall("model", ModelMatrix(scaleXYZ, rx, ry, rz, positionXYZ)) >>

\* the uniform names of light source i, i = 0..3
LightNames ==
    << << "lightSources[0].position", "lightSources[0].ambientColor",
          "lightSources[0].diffuseColor", "lightSources[0].specularColor",
          "lightSources[0].focalStrength", "lightSources[0].specularIntensity" >>,
       << "lightSources[1].position", "lightSources[1].ambientColor",
          "lightSources[1].diffuseColor", "lightSources[1].specularColor",
          "lightSources[1].focalStrength", "lightSources[1].specularIntensity" >>,
       << "lightSources[2].position", "lightSources[2].ambientColor",
          "lightSources[2].diffuseColor", "lightSources[2].specularColor",
          "lightSources[2].focalStrength", "lightSources[2].specularIntensity" >>,
       << "lightSources[3].position", "lightSources[3].ambientColor",
          "lightSources[3].diffuseColor", "lightSources[3].specularColor",
          "lightSources[3].focalStrength", "lightSources[3].specularIntensity" >> >>

\* one light source of SetupSceneLights (units of 1/1000)
LightCalls(i, position, ambient, diffuse, specular, focal, intensity) ==
    << SetCall(LightNames[i + 1][1], position),
       SetCall(LightNames[i + 1][2], ambient),
       SetCall(LightNames[i + 1][3], diffuse),
       SetCall(LightNames[i + 1][4], specular),
       SetCall(LightNames[i + 1][5], <<focal>>),
       SetCall(LightNames[i + 1][6], <<intensity>>) >>

SetupSceneLightsCalls ==
    LightCalls(0, <<-20000, 15000, -16500>>, <<200, 200, 200>>, <<1000, 950, 900>>,
               <<1000, 950, 900>>, 10000, 200)
    \o LightCalls(1, <<-20000, 6000, -16500>>, <<200, 200, 200>>, <<800, 750, 700>>,
               <<500, 500, 500>>, 10, 0)
    \o LightCalls(2, <<20000, 15000, -16500>>, <<200, 200, 200>>, <<1000, 950, 900>>,
               <<1000, 950, 900>>, 10000, 200)
    \o LightCalls(3, <<20000, 6000, -16500>>, <<200, 200, 200>>, <<800, 750, 700>>,
               <<500, 500, 500>>, 10, 0)
    \o << SetCall("bUseLighting", <<1>>) >>

\* the mesh loads of PrepareScene
PrepareSceneLoads ==
    << LoadCall("Plane"), LoadCall("TaperedCylinder"), LoadCall("Torus"),
       LoadCall("Cylinder"), LoadCall("Cone"), LoadCall("Box") >>

MaterialUniforms ==
    {"material.ambientColor", "material.ambientStrength", "material.diffuseColor",
     "material.specularColor", "material.shininess"}

UniformNames ==
    {"model", "objectColor", "objectTexture", "bUseTexture", "UVscale", "bUseLighting"}
    \cup MaterialUniforms
    \cup {LightNames[i][k] : i \in 1..4, k \in 1..6}

\* the uniform values after the calls: the last value set wins
Publish(u, calls) ==
    LET sets  == {i \in 1..Len(calls) : calls[i].call = "set"}
        named == {calls[i].name : i \in sets}
        last(name) == CHOOSE i \in sets :
                         /\ calls[i].name = name
                         /\ \A j \in sets : calls[j].name = name => j <= i
    IN  [name \in UniformNames |->
            IF name \in named THEN calls[last(name)].val ELSE u[name]]

---------------------------------------------------------------------------
(* SceneManager.cpp: RenderScene                                           *)

\* One block of RenderScene.  model holds the call SetTransformations makes
\* for the block's arguments; texture and material hold the tag handed to
\* SetShaderTexture and SetShaderMaterial, or nothing where the block makes
\* no such call.
Placement(mesh, scaleXYZ, rx, ry, rz, positionXYZ, texture, material) ==
    [mesh |-> mesh, scale |-> scaleXYZ, rot |-> <<rx, ry, rz>>, pos |-> positionXYZ,
     model |-> SetTransformationsCalls(scaleXYZ, rx, ry, rz, positionXYZ),
     texture |-> texture, material |-> material]

ScenePlacements ==
    << Placement("Plane",           <<10000, 1000, 9000>>,   0,   0,   0, <<0, 1000, 0>>,          <<"table">>,        <<"marble">>),
       Placement("TaperedCylinder", <<1000, 800, 1000>>,   180,   0,   0, <<4000, 1800, -1000>>,   <<"mug">>,          <<"ceramic">>),
       Placement("Torus",           <<600, 700, 1000>>,    180,   0,   0, <<5000, 2400, -1000>>,   <<"mug">>,          <<"ceramic">>),
       Placement("Cylinder",        <<1000, 1800, 1000>>,  180,   0,   0, <<4000, 3600, -1000>>,   <<"mug">>,          <<"ceramic">>),
       Placement("Box",             <<6000, 275, 3750>>,     0,  90,   0, <<0, 1100, 1000>>,       <<"bluePlastic">>,  <<"dullPlastic">>),
       Placement("Box",             <<6400, 600, 3750>>,     0,   0,   0, <<-2000, 1200, -4400>>,  <<"brownBook">>,    <<"paper">>),
       Placement("Box",             <<5700, 500, 3250>>,     0, -10,   0, <<-2200, 1700, -4400>>,  <<"blackBook">>,    <<"paper">>),
       Placement("Box",             <<5700, 500, 3250>>,     0,  20,   0, <<-2200, 2200, -4400>>,  <<"blackBook">>,    <<"paper">>),
       Placement("Box",             <<2000, 2700, 2000>>,    0,   0,   0, <<-4000, 2000, -500>>,   <<"redPaper">>,     <<"paper">>),
       Placement("Cylinder",        <<1090, 400, 1090>>,     0,   0,   0, <<-4000, 3350, -500>>,   <<"blackPlastic">>, <<"plastic">>),
       Placement("Cylinder",        <<50, 2000, 50>>,       90,   0,  64, <<900, 1330, 1000>>,     <<"blackPlastic">>, <<"plastic">>),
       Placement("Cone",            <<50, 120, 50>>,        90,   0,  64, <<-900, 1330, 1877>>,    <<"blackPlastic">>, <<"plastic">>),
       Placement("TaperedCylinder", <<50, 90, 50>>,         90,   0, 244, <<900, 1330, 1000>>,     <<"blackPlastic">>, <<"plastic">>),
       Placement("Plane",           <<6000, 1000, 9000>>,   90,   0,   0, <<-20000, 6000, -17000>>, <<"whitePlastic">>, <<"plastic">>),
       Placement("Plane",           <<6000, 1000, 9000>>,   90,   0,   0, <<20000, 6000, -17000>>,  << >>,              << >>) >>

\* a block of RenderScene that draws before it publishes
PlacementCallsDrawFirst(T, materials, p, uninit) ==
    << DrawCall(p.mesh) >>
    \o p.model
    \o (IF p.texture = << >> THEN << >> ELSE SetShaderTextureCalls(T, p.texture[1]))
    \o (IF p.material = << >> THEN << >>
        ELSE SetShaderMaterialCalls(materials, p.material[1], uninit))

\* a block of RenderScene that draws only what it textured
PlacementCallsSkipsUntextured(T, materials, p, uninit) ==
    p.model
    \o (IF p.texture = << >> THEN << >>
        ELSE SetShaderTextureCalls(T, p.texture[1])
             \o (IF p.material = << >> THEN << >>
                 ELSE SetShaderMaterialCalls(materials, p.material[1], uninit))
             \o << DrawCall(p.mesh) >>)

\* the calls of one block of RenderScene
PlacementCalls(T, materials, p, uninit) ==
    p.model
    \o (IF p.texture = << >> THEN << >> ELSE SetShaderTextureCalls(T, p.texture[1]))
    \o (IF p.material = << >> THEN << >>
        ELSE SetShaderMaterialCalls(materials, p.material[1], uninit))
    \o << DrawCall(p.mesh) >>

RECURSIVE RenderFrom(_, _, _, _)
RenderFrom(T, materials, i, uninit) ==
    IF i > Len(ScenePlacements) THEN << >>
    ELSE PlacementCalls(T, materials, ScenePlacements[i], uninit)
         \o RenderFrom(T, materials, i + 1, uninit)

\* RenderScene: all its shader manager and mesh provider calls, in order
RenderSceneCalls(T, materials, uninit) == RenderFrom(T, materials, 1, uninit)

---------------------------------------------------------------------------
(* The operations of SceneManager as actions                               *)

\* SceneManager::SceneManager
SceneInit ==
    /\ m_textureIDs = [i \in 1..TableSize |-> EmptyEntry]
    /\ m_beyond = << >>
    /\ m_loadedTextures = 0
    /\ m_objectMaterials = << >>
    /\ gl = [textures |-> {}, next |-> 1, units |-> << >>]
    /\ uniforms = [u \in UniformNames |-> << >>]
    /\ log = << >>
    /\ crashed = FALSE
    /\ lastCall = [op |-> "SceneManager", tag |-> "", ch |-> 0, ret |-> "void"]
    /\ createCalls = 0
    /\ prepareCalls = 0
    /\ registered = << >>
    /\ failedTags = {}

\* the texture state T becomes the state
SetTexState(T) ==
    /\ m_textureIDs' = T.tab
    /\ m_beyond' = T.beyond
    /\ m_loadedTextures' = T.n
    /\ gl' = T.gl
    /\ crashed' = T.crashed

\* tags a caller may pass, besides those of the scene
CallTags == {"mug", "extra"}

CreateGLTexture(ch, tag, survive) ==
    LET r == CreateGLTextureOn(TexState, ch, tag, survive)
    IN  /\ ~crashed
        /\ SetTexState(r.st)
        /\ lastCall' = [op |-> "CreateGLTexture", tag |-> tag, ch |-> ch, ret |-> r.ret]
        /\ log' = << >>
        /\ createCalls' = createCalls + 1
        /\ registered' = IF r.ret = "true" THEN Append(registered, tag) ELSE registered
        /\ failedTags' = IF r.ret = "false" THEN failedTags \cup {tag} ELSE failedTags
        /\ UNCHANGED <<m_objectMaterials, uniforms, prepareCalls>>
        /\ UNCHANGED <<viewVars, transformArgs>>

\* the tags of the calls that returned ret, in call order
TagsReturning(rets, ret) ==
    LET sel == SelectSeq(rets, LAMBDA r : r.ret = ret)
    IN  [i \in 1..Len(sel) |-> sel[i].tag]

Range(seq) == {seq[i] : i \in 1..Len(seq)}

\* how the eight scene images may decode
SceneDecodes ==
    { <<3, 3, 3, 3, 3, 3, 3, 3>>,
      <<3, 1, 3, 4, 3, 3, 3, 0>> }

PrepareScene(chs, survive) ==
    LET T     == LoadSceneTexturesOn(TexState, chs, survive)
        rets  == LoadReturns(TexState, 1, chs, survive)
        calls == SetupSceneLightsCalls \o PrepareSceneLoads
    IN  /\ ~crashed
        /\ SetTexState(T)
        /\ registered' = registered \o TagsReturning(rets, "true")
        /\ failedTags' = failedTags \cup Range(TagsReturning(rets, "false"))
        /\ prepareCalls' = prepareCalls + 1
        /\ UNCHANGED createCalls
        /\ UNCHANGED <<viewVars, transformArgs>>
        /\ IF T.crashed
           THEN /\ lastCall' = [op |-> "PrepareScene", tag |-> "", ch |-> 0, ret |-> "crash"]
                /\ log' = << >>
                /\ UNCHANGED <<m_objectMaterials, uniforms>>
           ELSE /\ lastCall' = [op |-> "PrepareScene", tag |-> "", ch |-> 0, ret |-> "void"]
                /\ m_objectMaterials' = DefineObjectMaterialsOn(m_objectMaterials)
                /\ log' = calls
                /\ uniforms' = Publish(uniforms, calls)

\* material tags a caller may pass
MaterialTags == {"plastic", "wood"}

SetShaderMaterial(tag, uninit) ==
    LET calls == SetShaderMaterialCalls(m_objectMaterials, tag, uninit)
    IN  /\ ~crashed
        /\ lastCall' = [op |-> "SetShaderMaterial", tag |-> tag, ch |-> 0,
                        ret |-> IF FindMaterial(m_objectMaterials, tag, uninit).ret
                                THEN "true" ELSE "false"]
        /\ log' = calls
        /\ uniforms' = Publish(uniforms, calls)
        /\ UNCHANGED <<m_textureIDs, m_beyond, m_loadedTextures, m_objectMaterials, gl,
                       crashed, createCalls, prepareCalls, registered, failedTags>>
        /\ UNCHANGED <<viewVars, transformArgs>>

SetShaderTexture(tag) ==
    LET calls == SetShaderTextureCalls(TexState, tag)
    IN  /\ ~crashed
        /\ lastCall' = [op |-> "SetShaderTexture", tag |-> tag, ch |-> 0, ret |-> "void"]
        /\ log' = calls
        /\ uniforms' = Publish(uniforms, calls)
        /\ UNCHANGED <<m_textureIDs, m_beyond, m_loadedTextures, m_objectMaterials, gl,
                       crashed, createCalls, prepareCalls, registered, failedTags>>
        /\ UNCHANGED <<viewVars, transformArgs>>

RenderScene(uninit) ==
    LET calls == RenderSceneCalls(TexState, m_objectMaterials, uninit)
    IN  /\ ~crashed
        /\ lastCall' = [op |-> "RenderScene", tag |-> "", ch |-> 0, ret |-> "void"]
        /\ log' = calls
        /\ uniforms' = Publish(uniforms, calls)
        /\ UNCHANGED <<m_textureIDs, m_beyond, m_loadedTextures, m_objectMaterials, gl,
                       crashed, createCalls, prepareCalls, registered, failedTags>>
        /\ UNCHANGED <<viewVars, transformArgs>>

\* colours a caller may pass to SetShaderColor, in units of 1/1000
CallColors == {<<1000, 0, 0, 1000>>, <<200, 400, 600, 500>>}

SetShaderColor(redColorValue, greenColorValue, blueColorValue, alphaValue) ==
    LET calls == SetShaderColorCalls(redColorValue, greenColorValue, blueColorValue,
                                     alphaValue)
    IN  /\ ~crashed
        /\ lastCall' = [op |-> "SetShaderColor", tag |-> "", ch |-> 0, ret |-> "void"]
        /\ log' = calls
        /\ uniforms' = Publish(uniforms, calls)
        /\ UNCHANGED <<m_textureIDs, m_beyond, m_loadedTextures, m_objectMaterials, gl,
                       crashed, createCalls, prepareCalls, registered, failedTags>>
        /\ UNCHANGED <<viewVars, transformArgs>>

\* SceneManager::~SceneManager
Destructor ==
    /\ ~crashed
    /\ SetTexState(DestroyGLTexturesOn(TexState))
    /\ lastCall' = [op |-> "~SceneManager", tag |-> "", ch |-> 0, ret |-> "void"]
    /\ log' = << >>
    /\ UNCHANGED <<m_objectMaterials, uniforms, createCalls, prepareCalls,
                   registered, failedTags>>
    /\ UNCHANGED <<viewVars, transformArgs>>

\* the SceneManager object has not been destroyed
Alive == lastCall.op # "~SceneManager"

\* scales and positions (units of 1/1000) and rotations (degrees) a caller
\* may pass to SetTransformations
CallScales    == {<<1000, 1000, 1000>>, <<2000, 1000, 1000>>, <<1000, 2000, 3000>>}
CallRotations == {0, 90, 180, -90}
CallPositions == {<<0, 0, 0>>, <<1000, 0, 0>>, <<1000, -2000, 3000>>}
CallArgs      ==
    [scale : CallScales, rx : CallRotations, ry : CallRotations, rz : CallRotations,
     pos : CallPositions]

SetTransformations(scaleXYZ, rx, ry, rz, positionXYZ) ==
    LET calls == SetTransformationsCalls(scaleXYZ, rx, ry, rz, positionXYZ)
    IN  /\ ~crashed
        /\ lastCall' = [op |-> "SetTransformations", tag |-> "", ch |-> 0, ret |-> "void"]
        /\ log' = calls
        /\ uniforms' = Publish(uniforms, calls)
        /\ UNCHANGED <<m_textureIDs, m_beyond, m_loadedTextures, m_objectMaterials, gl,
                       crashed, createCalls, prepareCalls, registered, failedTags>>
        /\ UNCHANGED <<viewVars, transformArgs>>

\* texture registration and scene setup, until the object is destroyed
TextureNext ==
    \/ \E ch \in Channels, tag \in CallTags, survive \in BOOLEAN :
          Alive /\ createCalls < MaxCreateCalls /\ CreateGLTexture(ch, tag, survive)
    \/ \E chs \in SceneDecodes, survive \in BOOLEAN :
          Alive /\ prepareCalls < MaxPrepareCalls /\ PrepareScene(chs, survive)
    \/ Alive /\ Destructor

\* drawing, after or before a short setup
ShaderNext ==
    \/ \E ch \in Channels, tag \in CallTags, survive \in BOOLEAN :
          createCalls + prepareCalls < MaxSetupCalls /\ CreateGLTexture(ch, tag, survive)
    \/ \E chs \in SceneDecodes, survive \in BOOLEAN :
          createCalls + prepareCalls < MaxSetupCalls /\ PrepareScene(chs, survive)
    \/ \E tag \in MaterialTags, uninit \in UninitMaterials : SetShaderMaterial(tag, uninit)
    \/ \E tag \in {"table", "extra"} : SetShaderTexture(tag)
    \/ \E uninit \in UninitMaterials : RenderScene(uninit)

\* the operations that touch the object colour and the use-texture flag,
\* around scene setups
ColorNext ==
    \/ \E chs \in SceneDecodes, survive \in BOOLEAN :
          prepareCalls < MaxColorSetups /\ PrepareScene(chs, survive)
    \/ \E c \in CallColors : SetShaderColor(c[1], c[2], c[3], c[4])
    \/ \E tag \in {"table", "extra"} : SetShaderTexture(tag)
    \/ \E uninit \in UninitMaterials : RenderScene(uninit)

\* calls of SetTransformations alone
TransformNext ==
    SetTransformations(transformArgs.scale, transformArgs.rx, transformArgs.ry,
                       transformArgs.rz, transformArgs.pos)

---------------------------------------------------------------------------
(* Specifications.  The view controller and the scene composer share no    *)
(* state: ViewSpec runs the view controller with the scene composer at     *)
(* rest; TextureSpec runs texture registration and scene setup up to and   *)
(* past the capacity of the slot table; ShaderSpec runs the drawing        *)
(* operations around a short setup; TransformSpec applies                  *)
(* SetTransformations to scales, quarter-turn rotations and positions;     *)
(* ColorSpec runs SetShaderColor among texturing and drawing.              *)

\* the arguments of the first block of RenderScene
PlaneArgs ==
    [scale |-> ScenePlacements[1].scale, rx |-> ScenePlacements[1].rot[1],
     ry |-> ScenePlacements[1].rot[2], rz |-> ScenePlacements[1].rot[3],
     pos |-> ScenePlacements[1].pos]

Init == ViewInit /\ SceneInit /\ transformArgs = PlaneArgs

\* a caller with any of the arguments of CallArgs
TransformInit == ViewInit /\ SceneInit /\ transformArgs \in CallArgs

ViewSpec    == Init /\ [][ViewNext]_vars
TextureSpec == Init /\ [][TextureNext]_vars
ShaderSpec  == Init /\ [][ShaderNext]_vars
TransformSpec == TransformInit /\ [][TransformNext]_vars
ColorSpec   == Init /\ [][ColorNext]_vars

---------------------------------------------------------------------------
(* Properties                                                              *)

\* C1: pitch stays within [-89, 89] degrees in every reachable state of the
\* view controller, whatever cursor, scroll and frame events arrive.
PitchInRange == -890 <= pitch /\ pitch <= 890

\* a cursor move of 1000 pixels upwards was cut down to 89 degrees
PitchWasClamped == mouseCalls >= 2 /\ pitch = 890

\* C2: the movement speed stays within [0.1, 1.0] in every reachable state
\* of the view controller.
SpeedInRange == 1 <= camera.MovementSpeed /\ camera.MovementSpeed <= 10

\* a scroll of 12 notches was cut down to speed 1.0
SpeedWasClamped == scrollCalls >= 1 /\ camera.MovementSpeed = 10

\* C3: after the first cursor callback the camera's front direction is still
\* the one the constructor set.
FirstCursorCallbackKeepsFront ==
    mouseCalls = 1 => camera.Front = CtorCamera.Front

\* C4: the number of loaded textures never exceeds the 16 slots of the table.
LoadedTexturesWithinCapacity == m_loadedTextures <= 16

\* no two of the sequence's entries carry the same tag
UniqueTags(entries) ==
    \A i, j \in 1..Len(entries) : entries[i].tag = entries[j].tag => i = j

LoadedEntries == [i \in 1..m_loadedTextures |-> EntryAt(TexState, i - 1)]

\* C5: no two loaded texture entries carry the same tag, and no two
\* materials carry the same tag.
TagsAreUnique == UniqueTags(LoadedEntries) /\ UniqueTags(m_objectMaterials)

\* C6: CreateGLTexture of an image with 3 or 4 channels returns success, and
\* FindTextureSlot of its tag then returns a slot in [0, loaded count).
ValidImageRegisters ==
    (lastCall.op = "CreateGLTexture" /\ lastCall.ch \in {3, 4})
    => /\ lastCall.ret = "true"
       /\ 0 <= FindTextureSlot(lastCall.tag)
       /\ FindTextureSlot(lastCall.tag) < m_loadedTextures

\* C7: a CreateGLTexture whose image does not decode, or decodes with a
\* channel count other than 3 or 4, returns failure and leaves the texture
\* table and the loaded count as they were; a tag that was absent before is
\* absent after: FindTextureSlot and FindTextureID return -1 for it.
FailedCreateChangesNothing ==
    [][(createCalls' = createCalls + 1 /\ lastCall'.ch \notin {3, 4})
       => /\ lastCall'.ret = "false"
          /\ m_textureIDs' = m_textureIDs
          /\ m_beyond' = m_beyond
          /\ m_loadedTextures' = m_loadedTextures
          /\ (FindTextureSlot(lastCall'.tag) = -1
              => /\ FindTextureSlotOn(TexState', lastCall'.tag) = -1
                 /\ FindTextureIDOn(TexState', lastCall'.tag) = -1)]_vars

\* an image with one channel was refused while the table held textures, and
\* its tag is absent
CreateFailedOnChannels ==
    /\ lastCall.op = "CreateGLTexture" /\ lastCall.ch = 1 /\ lastCall.ret = "false"
    /\ m_loadedTextures > 0
    /\ FindTextureSlot(lastCall.tag) = -1
    /\ FindTextureID(lastCall.tag) = -1

\* C8: SetShaderMaterial of a tag that no entry of the non-empty material
\* list carries finds nothing and publishes nothing.
MaterialMissPublishesNothing ==
    (/\ lastCall.op = "SetShaderMaterial"
     /\ Len(m_objectMaterials) > 0
     /\ \A i \in 1..Len(m_objectMaterials) : m_objectMaterials[i].tag # lastCall.tag)
    => lastCall.ret = "false" /\ log = << >>

\* the draw calls among the calls, in order
Draws(calls) == SelectSeq(calls, LAMBDA c : c.call = "draw")

\* C9, as stated: one RenderScene makes 17 draw calls.
RenderDrawsSeventeen ==
    lastCall.op = "RenderScene" => Len(Draws(log)) = 17

\* C9, amended: one RenderScene makes one draw call per block, each of the
\* block's mesh, 15 in all.
RenderDrawsOncePerPlacement ==
    lastCall.op = "RenderScene"
    => /\ Len(Draws(log)) = 15
       /\ \A k \in 1..Len(Draws(log)) :
             k <= Len(ScenePlacements) /\ Draws(log)[k].name = ScenePlacements[k].mesh

\* the scene was set up with all its textures and then rendered
RenderedAfterSetup ==
    /\ lastCall.op = "RenderScene"
    /\ Len(m_objectMaterials) > 0
    /\ FindTextureSlot("brownBook") = 7

\* the position in calls of the k-th draw call (0 for k = 0)
DrawIndex(calls, k) ==
    IF k = 0 THEN 0
    ELSE CHOOSE i \in 1..Len(calls) :
            /\ calls[i].call = "draw"
            /\ Cardinality({j \in 1..i : calls[j].call = "draw"}) = k

\* the calls between the (k-1)-th draw call and the k-th
Segment(calls, k) == SubSeq(calls, DrawIndex(calls, k - 1) + 1, DrawIndex(calls, k) - 1)

CallNames(calls) == [i \in 1..Len(calls) |-> calls[i].name]

Publishes(calls, name) == \E i \in 1..Len(calls) : calls[i].name = name

\* C10, as stated: every draw call of RenderScene comes after a publish of the
\* model matrix, of the texture slot with the use-texture flag or of a solid
\* colour, of the five material uniforms and of a UV scale.
EveryDrawFullyPublished ==
    (lastCall.op = "RenderScene" /\ Len(m_objectMaterials) > 0)
    => \A k \in 1..Len(Draws(log)) :
          LET seg == Segment(log, k)
          IN  /\ Publishes(seg, "model")
              /\ \/ Publishes(seg, "bUseTexture") /\ Publishes(seg, "objectTexture")
                 \/ Publishes(seg, "objectColor")
              /\ \A m \in MaterialUniforms : Publishes(seg, m)
              /\ Publishes(seg, "UVscale")

MaterialNames ==
    << "material.ambientColor", "material.ambientStrength", "material.diffuseColor",
       "material.specularColor", "material.shininess" >>

\* C10, amended: every draw call of RenderScene comes after a publish of
\* the block's transform; every block but the last, the back right window,
\* then publishes the use-texture flag and the slot of its texture and, once
\* materials are defined, the five uniforms of its material; the last block
\* publishes its transform alone; no block publishes a UV scale.
EveryDrawPublishedAsCoded ==
    lastCall.op = "RenderScene"
    => \A k \in 1..Len(Draws(log)) :
          LET seg == Segment(log, k)
              p   == ScenePlacements[IF k <= Len(ScenePlacements) THEN k ELSE 1]
              defined == Len(m_objectMaterials) > 0
          IN  /\ CallNames(seg) =
                    << "model" >>
                    \o (IF k = 15 THEN << >> ELSE << "bUseTexture", "objectTexture" >>)
                    \o (IF k # 15 /\ defined THEN MaterialNames ELSE << >>)
              /\ seg[1].val = ModelMatrix(p.scale, p.rot[1], p.rot[2], p.rot[3], p.pos)
              /\ k # 15 =>
                    /\ seg[2].val = << 1 >>
                    /\ seg[3].val = << FindTextureSlot(p.texture[1]) >>
              /\ (k # 15 /\ defined) =>
                    \E i \in 1..Len(SceneMaterials) :
                       /\ SceneMaterials[i].tag = p.material[1]
                       /\ seg[4].val = SceneMaterials[i].ambientColor
                       /\ seg[5].val = << SceneMaterials[i].ambientStrength >>
                       /\ seg[6].val = SceneMaterials[i].diffuseColor
                       /\ seg[7].val = SceneMaterials[i].specularColor
                       /\ seg[8].val = << SceneMaterials[i].shininess >>

\* the scene was set up and rendered, and the last draw found the material
\* and the texture of the block before it still published
RenderedLastBlockBare ==
    /\ lastCall.op = "RenderScene"
    /\ Len(m_objectMaterials) > 0
    /\ Len(Draws(log)) = 15
    /\ Len(Segment(log, 15)) = 1
    /\ uniforms["objectTexture"] = << FindTextureSlot("whitePlastic") >>
    /\ uniforms["material.shininess"] = << 60000 >>


\* the projection kind the last frame published
PublishedKind == viewUniforms.projection.kind

\* C11: the projection mode starts as perspective; a frame with O alone
\* pressed ends orthographic, with P alone perspective, with neither it keeps
\* the mode; cursor and scroll callbacks never change the mode; and a frame
\* publishes the projection of the mode it ends in.
ProjectionModeMachine ==
    [][ /\ (frames = 0 => ~bOrthographicProjection)
        /\ (frames' = frames => bOrthographicProjection' = bOrthographicProjection)
        /\ (frames' # frames =>
              /\ ("O" \in lastKeys' /\ "P" \notin lastKeys' => bOrthographicProjection')
              /\ ("P" \in lastKeys' /\ "O" \notin lastKeys' => ~bOrthographicProjection')
              /\ ("P" \notin lastKeys' /\ "O" \notin lastKeys' =>
                     bOrthographicProjection' = bOrthographicProjection)
              /\ viewUniforms'.projection.kind =
                     IF bOrthographicProjection' THEN "ortho" ELSE "perspective")
      ]_vars

\* the mode set by an earlier O frame outlived a frame without P or O and a
\* cursor callback
OrthographicStayed ==
    /\ frames >= 2 /\ mouseCalls >= 1
    /\ lastKeys = {"W"}
    /\ bOrthographicProjection
    /\ PublishedKind = "ortho"


\* a point turned about a coordinate axis by the quarter turns of d degrees
QuarterTurns(d) == (d \div 90) % 4
TurnX(p, d) ==
    CASE QuarterTurns(d) = 0 -> p
      [] QuarterTurns(d) = 1 -> <<p[1], -p[3], p[2]>>
      [] QuarterTurns(d) = 2 -> <<p[1], -p[2], -p[3]>>
      [] QuarterTurns(d) = 3 -> <<p[1], p[3], -p[2]>>
TurnY(p, d) ==
    CASE QuarterTurns(d) = 0 -> p
      [] QuarterTurns(d) = 1 -> <<p[3], p[2], -p[1]>>
      [] QuarterTurns(d) = 2 -> <<-p[1], p[2], -p[3]>>
      [] QuarterTurns(d) = 3 -> <<-p[3], p[2], p[1]>>
TurnZ(p, d) ==
    CASE QuarterTurns(d) = 0 -> p
      [] QuarterTurns(d) = 1 -> <<-p[2], p[1], p[3]>>
      [] QuarterTurns(d) = 2 -> <<-p[1], -p[2], p[3]>>
      [] QuarterTurns(d) = 3 -> <<p[2], -p[1], p[3]>>

\* the local point p (whole units) scaled, turned about Z, then Y, then X,
\* then moved, in units of 1/1000
TransformedPoint(a, p) ==
    VAdd(TurnX(TurnY(TurnZ(<<a.scale[1] * p[1], a.scale[2] * p[2], a.scale[3] * p[3]>>,
                           a.rz), a.ry), a.rx),
         a.pos)

\* the matrix M times the point p (whole units), in units of 1/VecScale
MatApply(M, p) ==
    [i \in 1..3 |-> M[i][1] * p[1] + M[i][2] * p[2] + M[i][3] * p[3] + M[i][4]]

LocalPoints == {<<3, 0, 0>>, <<1, 2, 3>>, <<0, -1, 2>>}

\* scale (2,1,1), rotation (0,90,0), position (1,0,0)
ExampleArgs ==
    [scale |-> <<2000, 1000, 1000>>, rx |-> 0, ry |-> 90, rz |-> 0, pos |-> <<1000, 0, 0>>]

\* C12: the matrix SetTransformations publishes is translation * rotationX *
\* rotationY * rotationZ * scale: it takes a local point to the point scaled,
\* then turned about Z, then Y, then X, then moved; with scale (2,1,1),
\* rotation (0,90,0) and position (1,0,0) it takes (3,0,0) to (1,0,-6).
ModelMatrixOrder ==
    lastCall.op = "SetTransformations" =>
        /\ \A p \in LocalPoints :
              MatApply(uniforms["model"], p)
                 = [i \in 1..3 |-> FromMilli(TransformedPoint(transformArgs, p)[i])]
        /\ transformArgs = ExampleArgs =>
              MatApply(uniforms["model"], <<3, 0, 0>>) = <<VecScale, 0, -6 * VecScale>>

\* the example call was made
ExampleTransformed ==
    /\ lastCall.op = "SetTransformations"
    /\ transformArgs = ExampleArgs
    /\ MatApply(uniforms["model"], <<3, 0, 0>>) = <<VecScale, 0, -6 * VecScale>>


\* C13: once the load of a tag has failed, and the tag was never registered,
\* SetShaderTexture of that tag completes, sets the use-texture flag and
\* publishes -1 as the texture slot, never the slot of another texture.
FailedTextureLooksUpMinusOne ==
    (/\ lastCall.op = "SetShaderTexture"
     /\ lastCall.tag \in failedTags
     /\ lastCall.tag \notin Range(registered))
    => /\ ~crashed
       /\ log = << SetCall("bUseTexture", <<1>>), SetCall("objectTexture", <<-1>>) >>
       /\ uniforms["bUseTexture"] = <<1>>
       /\ uniforms["objectTexture"] = <<-1>>

\* the stone texture failed to load while others loaded, and the table was
\* then textured
FailedTextureWasUsed ==
    /\ lastCall.op = "SetShaderTexture"
    /\ lastCall.tag = "table"
    /\ "table" \in failedTags
    /\ "table" \notin Range(registered)
    /\ m_loadedTextures > 0
    /\ uniforms["objectTexture"] = <<-1>>


\* the tags of seq are pairwise distinct
Distinct(seq) == \A i, j \in 1..Len(seq) : i # j => seq[i] # seq[j]

\* C14: after at most 16 successful registrations with pairwise distinct
\* tags, with failed registrations in between, FindTextureSlot of the k-th
\* registered tag is k - 1, which is also the texture unit BindGLTextures
\* binds it to; distinct tags have distinct slots and the failed
\* registrations took no slot.
RegisteredTagsKeepTheirSlots ==
    (~crashed /\ Len(registered) <= TableSize /\ Distinct(registered)) =>
        /\ m_loadedTextures = Len(registered)
        /\ \A k \in 1..Len(registered) : FindTextureSlot(registered[k]) = k - 1
        /\ \A j, k \in 1..Len(registered) :
              j # k => FindTextureSlot(registered[j]) # FindTextureSlot(registered[k])
        /\ (lastCall.op = "PrepareScene" =>
              \A k \in 1..Len(registered) :
                 /\ k \in DOMAIN gl.units
                 /\ gl.units[k] = FindTextureID(registered[k])
                 /\ gl.units[k] \in gl.textures)

\* nine textures with distinct tags were registered, one of them after its
\* first load had failed, and then bound
NineRegisteredAndBound ==
    /\ ~crashed
    /\ Len(registered) = 9 /\ Distinct(registered)
    /\ registered[1] = "extra" /\ "extra" \in failedTags
    /\ lastCall.op = "PrepareScene"
    /\ FindTextureSlot("brownBook") = 8


\* C15: the destructor releases every GPU texture the scene composer
\* created: after it no texture name is alive, and it has made no new one.
DestructorReleasesTextures ==
    [][lastCall'.op = "~SceneManager" =>
          /\ gl'.textures = {}
          /\ gl'.next = gl.next]_vars


\* the vector a has length 1, up to the rounding of the fixed-point unit
\* (squared length within a thousandth of 1)
IsUnit(a) ==
    /\ SqLen(a) >= VecScale * VecScale - 10 * VecScale
    /\ SqLen(a) <= VecScale * VecScale + 10 * VecScale

\* C16: the camera's front direction is a unit vector in every reachable
\* state, from the constructor on.
FrontIsUnit == IsUnit(camera.Front)

\* what does hold: the front direction is a unit vector once a cursor
\* callback has run
FrontIsUnitAfterCursor == mouseCalls >= 1 => IsUnit(camera.Front)


\* tags to look up: scene tags, a caller's tag, the tag of the unused slots,
\* and a tag nothing has
LookupTags == {"mug", "table", "brownBook", "extra", "/0", "none"}

\* the indices below the loaded count whose entry has the tag
Matches(tag) == {i \in 0..(m_loadedTextures - 1) : EntryAt(TexState, i).tag = tag}

\* C17: FindTextureSlot returns the smallest index below the loaded count
\* whose tag is the argument, FindTextureID the handle stored at that index;
\* both return -1 exactly when no loaded entry has the tag; entries at or
\* past the loaded count are never matched.  (Table within its 16 slots.)
LookupReturnsFirstMatch ==
    (~crashed /\ m_loadedTextures <= TableSize) =>
        \A tag \in LookupTags :
           IF Matches(tag) = {}
           THEN FindTextureSlot(tag) = -1 /\ FindTextureID(tag) = -1
           ELSE /\ FindTextureSlot(tag) \in Matches(tag)
                /\ \A i \in Matches(tag) : FindTextureSlot(tag) <= i
                /\ FindTextureID(tag) = m_textureIDs[FindTextureSlot(tag) + 1].ID
                /\ FindTextureID(tag) # -1

\* "mug" is loaded twice, at slots 0 and 1, and there are unused slots
DuplicateTagLookedUp ==
    /\ ~crashed /\ m_loadedTextures < TableSize
    /\ Matches("mug") = {0, 1}
    /\ FindTextureSlot("mug") = 0
    /\ FindTextureID("mug") = m_textureIDs[1].ID
    /\ m_textureIDs[2].ID # m_textureIDs[1].ID
    /\ FindTextureSlot("/0") = -1


\* C18: a frame that finds both P and O pressed ends in orthographic mode,
\* whatever the mode before it, and publishes the orthographic projection.
BothKeysEndOrthographic ==
    [][(frames' # frames /\ {"P", "O"} \subseteq lastKeys') =>
          /\ bOrthographicProjection'
          /\ viewUniforms'.projection = [kind |-> "ortho", size |-> 10]]_vars

\* a frame found P and O pressed, after an earlier frame
BothKeysWerePressed ==
    /\ frames >= 2
    /\ lastKeys = {"P", "O"}
    /\ bOrthographicProjection
    /\ PublishedKind = "ortho"


\* the key sets of KeySets that move the camera
MovingKeySets == {{"W"}, {"S"}, {"A"}, {"D"}, {"Q"}, {"E"}, {"W", "D"}}

\* C19: a frame applies the movement keys before it computes and publishes
\* the view: viewPosition and the view matrix come from the camera position
\* after the movement, not from the position the frame started with, and
\* they use the front direction and the speed the callbacks before the
\* frame have left.
FramePublishesMovedCamera ==
    [][frames' # frames =>
          /\ viewUniforms'.viewPosition = camera'.Position
          /\ viewUniforms'.view.eye = camera'.Position
          /\ viewUniforms'.view.front = camera.Front
          /\ viewUniforms'.view.up = camera.Up
          /\ (lastKeys' \in MovingKeySets => viewUniforms'.viewPosition # camera.Position)
          /\ (lastKeys' = {"W"} =>
                 viewUniforms'.viewPosition
                    = VAdd(camera.Position, VTenths(camera.MovementSpeed, camera.Front)))
          /\ (lastKeys' = {"E"} =>
                 viewUniforms'.viewPosition
                    = VSub(camera.Position, VTenths(camera.MovementSpeed, camera.Up)))
          /\ (lastKeys' \cap {"W", "S", "A", "D", "Q", "E"} = {} =>
                 viewUniforms'.viewPosition = camera.Position)]_vars

\* after a scroll and a cursor callback, a frame with W held has published
\* the position it moved to and the direction the cursor gave
MovedFramePublished ==
    /\ frames >= 1 /\ mouseCalls >= 1 /\ scrollCalls >= 1
    /\ lastKeys = {"W"}
    /\ camera.MovementSpeed > 1
    /\ camera.Front # CtorCamera.Front
    /\ viewUniforms.view.front = camera.Front
    /\ viewUniforms.viewPosition = camera.Position
    /\ camera.Position # CtorCamera.Position


\* C20: after cursor callbacks with positions (x1,y1) .. (xn,yn), yaw is the
\* initial yaw plus 0.1 * (xn - x1), whatever the samples in between and
\* whatever the last-cursor globals started with; pitch is the initial pitch
\* plus 0.1 * (y1 - yn) as long as no callback clamped it.
YawTelescopes ==
    mouseCalls >= 1 =>
        /\ yaw = -890 + (gLastX - firstCursor[1])
        /\ (~pitchClamped => pitch = 0 + (firstCursor[2] - gLastY))

\* three cursor samples, the first off the window centre, none clamped
ThreeSamplesTelescoped ==
    /\ mouseCalls >= 3
    /\ firstCursor = <<520, 430>>
    /\ gLastX = 500 /\ gLastY = 400
    /\ ~pitchClamped
    /\ yaw = -910 /\ pitch = 30


\* the positions in calls where bUseTexture is set
FlagSets(calls) == {i \in 1..Len(calls) : calls[i].name = "bUseTexture"}

\* the value of bUseTexture when the d-th call is made: the last value set
\* before it, or the value before the calls
FlagAt(before, calls, d) ==
    LET earlier == {i \in FlagSets(calls) : i < d}
    IN  IF earlier = {} THEN before
        ELSE calls[CHOOSE i \in earlier : \A j \in earlier : j <= i].val

\* C21: no operation publishes bUseTexture = false and SetShaderColor
\* leaves the flag as it is; so once SetShaderTexture has set it, the flag
\* is true at every later draw call, also at the draws of blocks that
\* publish only a colour or nothing.
UseTextureNeverCleared ==
    [][ /\ \A i \in FlagSets(log') : log'[i].val = <<1>>
        /\ (lastCall'.op = "SetShaderColor" =>
               /\ FlagSets(log') = {}
               /\ uniforms'["bUseTexture"] = uniforms["bUseTexture"])
        /\ (uniforms["bUseTexture"] = <<1>> =>
               /\ uniforms'["bUseTexture"] = <<1>>
               /\ \A d \in 1..Len(log') :
                     log'[d].call = "draw" => FlagAt(uniforms["bUseTexture"], log', d) = <<1>>)
      ]_vars

\* after SetShaderTexture and then SetShaderColor, a RenderScene has drawn
\* its last block, which publishes no texture, with the flag still set
DrewWithFlagAfterColor ==
    /\ lastCall.op = "RenderScene"
    /\ uniforms["objectColor"] # << >>
    /\ uniforms["bUseTexture"] = <<1>>
    /\ log[Len(log)].call = "draw"
    /\ FlagAt(<<1>>, log, Len(log)) = <<1>>

=============================================================================
